---- MODULE Spec2Model ----
(***************************************************************************)
(* Model of the TheTVDB client in tvdb.go: the pipe-separated list         *)
(* decoder, the single-series lookups, the detail (season) aggregation and *)
(* the web search with its dedup / cap / error handling.                   *)
(*                                                                         *)
(* Strings are sequences of one-character strings.  A Go error is a string *)
(* naming its class, Nil being the nil error.  A *Series result is a       *)
(* sequence of length 0 (nil pointer) or 1.  The remote service is the     *)
(* environment: every response is chosen nondeterministically.             *)
(***************************************************************************)
EXTENDS Integers, Sequences, FiniteSets, TLC

VARIABLES
    \* PipeList.UnmarshalXML
    element, pipeList, pipeErr, pipePc,
    \* GetSeriesByID / GetSeriesByIMDBID
    idCall, idArg, idResponse, idSeries, idErr,
    \* GetSeriesDetail / GetSeriesListDetail
    list0, dList, seriesIndex, detailPc, detailErr, detailLog, callLog,
    \* SearchSeries
    maxResults, searchPc, groups, gi, doneSeriesIDs, seriesList, err, fetchLog, stop

pipeVars   == <<element, pipeList, pipeErr, pipePc>>
idVars     == <<idCall, idArg, idResponse, idSeries, idErr>>
detailVars == <<list0, dList, seriesIndex, detailPc, detailErr, detailLog, callLog>>
searchVars == <<maxResults, searchPc, groups, gi, doneSeriesIDs, seriesList, err, fetchLog, stop>>
vars       == <<pipeVars, idVars, detailVars, searchVars>>

----------------------------------------------------------------------------
\* Bounds of the model
MaxContentLen == 5
MaxDecoded    == 2
MaxSeries     == 3
MaxEpisodes   == 2
MaxGroups     == 3
UintBits      == 17

----------------------------------------------------------------------------
\* Error classes
Nil          == "nil"
ErrGet       == "http.Get error"
ErrRead      == "ioutil.ReadAll error"
ErrSyntax    == "*xml.SyntaxError"
ErrUnmarshal == "xml.Unmarshal error"
ErrCount     == "incorrect number of series"
ErrRange     == "strconv.ErrRange"

----------------------------------------------------------------------------
\* PipeList.UnmarshalXML

Alphabet == {"|", "a", "b"}
Strings  == UNION {[1..n -> Alphabet] : n \in 0..MaxContentLen}

\* strings.TrimLeft(s, "|")
RECURSIVE TrimLeft(_)
TrimLeft(s) == IF s # <<>> /\ Head(s) = "|" THEN TrimLeft(Tail(s)) ELSE s

\* strings.TrimRight(s, "|")
RECURSIVE TrimRight(_)
TrimRight(s) ==
    IF s # <<>> /\ s[Len(s)] = "|" THEN TrimRight(SubSeq(s, 1, Len(s) - 1)) ELSE s

\* Trim that removes a single delimiter at each end
TrimOnce(s) ==
    LET l == IF s # <<>> /\ Head(s) = "|" THEN Tail(s) ELSE s
    IN  IF l # <<>> /\ l[Len(l)] = "|" THEN SubSeq(l, 1, Len(l) - 1) ELSE l

\* strings.Trim(s, "|")
Trim(s) == TrimRight(TrimLeft(s))

\* strings.Index(s, "|"), 0 when absent (1-based)
Index(s) ==
    IF \E i \in 1..Len(s) : s[i] = "|"
    THEN CHOOSE i \in 1..Len(s) : s[i] = "|" /\ \A j \in 1..(i - 1) : s[j] # "|"
    ELSE 0

\* strings.Split(s, "|")
RECURSIVE Split(_)
Split(s) ==
    IF Index(s) = 0 THEN <<s>>
    ELSE <<SubSeq(s, 1, Index(s) - 1)>> \o Split(SubSeq(s, Index(s) + 1, Len(s)))

\* what decoder.DecodeElement(&content, &start) yields
Elements == {[ok |-> TRUE, content |-> s] : s \in Strings}
            \cup {[ok |-> FALSE, content |-> <<>>]}

UnmarshalXML ==
    /\ pipePc = "call"
    /\ IF ~element.ok
       THEN /\ pipeErr' = ErrSyntax
            /\ pipeList' = pipeList
       ELSE /\ pipeErr' = Nil
            /\ pipeList' = Split(Trim(element.content))
    /\ pipePc' = "done"
    /\ UNCHANGED <<element, idVars, detailVars, searchVars>>

----------------------------------------------------------------------------
\* GetSeriesByID / GetSeriesByIMDBID

SeriesIDs == {0, 71663, 79349}

\* Seasons of a Series: a nil map, or a map from season number to episodes
NilSeasons == [isNil |-> TRUE, m |-> <<>>]

\* a Series as decoded from a search or lookup response: no Seasons
Series(id) == [ID |-> id, SeriesName |-> "listed", Seasons |-> NilSeasons]

SeqsUpTo(S, n) == UNION {[1..k -> S] : k \in 0..n}

\* outcome of http.Get + ioutil.ReadAll + xml.Unmarshal into a SeriesList
ListResponses(ids) ==
    {[kind |-> k, list |-> <<>>] : k \in {"getErr", "readErr", "syntaxErr", "unmarshalErr"}}
    \cup {[kind |-> "decoded", list |-> l] : l \in SeqsUpTo({Series(i) : i \in ids}, MaxDecoded)}

GetSeriesByIDLax(resp) ==
    CASE resp.kind = "getErr"       -> [series |-> <<>>, err |-> ErrGet]
      [] resp.kind = "readErr"      -> [series |-> <<>>, err |-> ErrRead]
      [] resp.kind = "syntaxErr"    -> [series |-> <<>>, err |-> ErrSyntax]
      [] resp.kind = "unmarshalErr" -> [series |-> <<>>, err |-> ErrUnmarshal]
      [] OTHER -> IF Len(resp.list) < 1
                  THEN [series |-> <<>>, err |-> ErrCount]
                  ELSE [series |-> <<resp.list[1]>>, err |-> Nil]

GetSeriesByID(resp) ==
    CASE resp.kind = "getErr"       -> [series |-> <<>>, err |-> ErrGet]
      [] resp.kind = "readErr"      -> [series |-> <<>>, err |-> ErrRead]
      [] resp.kind = "syntaxErr"    -> [series |-> <<>>, err |-> ErrSyntax]
      [] resp.kind = "unmarshalErr" -> [series |-> <<>>, err |-> ErrUnmarshal]
      [] OTHER -> IF Len(resp.list) # 1
                  THEN [series |-> <<>>, err |-> ErrCount]
                  ELSE [series |-> <<resp.list[1]>>, err |-> Nil]

GetSeriesByIMDBID(resp) ==
    CASE resp.kind = "getErr"       -> [series |-> <<>>, err |-> ErrGet]
      [] resp.kind = "readErr"      -> [series |-> <<>>, err |-> ErrRead]
      [] resp.kind = "syntaxErr"    -> [series |-> <<>>, err |-> ErrSyntax]
      [] resp.kind = "unmarshalErr" -> [series |-> <<>>, err |-> ErrUnmarshal]
      [] OTHER -> IF Len(resp.list) # 1
                  THEN [series |-> <<>>, err |-> ErrCount]
                  ELSE [series |-> <<resp.list[1]>>, err |-> Nil]

ImdbIDs == {"", "tt0121955", "tt0387199"}

CallGetSeriesByID ==
    \E id \in SeriesIDs, resp \in ListResponses(SeriesIDs) :
        /\ idCall' = "GetSeriesByID"
        /\ idArg' = <<id>>
        /\ idResponse' = resp
        /\ idSeries' = GetSeriesByID(resp).series
        /\ idErr' = GetSeriesByID(resp).err
        /\ UNCHANGED <<pipeVars, detailVars, searchVars>>

CallGetSeriesByIMDBID ==
    \E id \in ImdbIDs, resp \in ListResponses(SeriesIDs) :
        /\ idCall' = "GetSeriesByIMDBID"
        /\ idArg' = <<id>>
        /\ idResponse' = resp
        /\ idSeries' = GetSeriesByIMDBID(resp).series
        /\ idErr' = GetSeriesByIMDBID(resp).err
        /\ UNCHANGED <<pipeVars, detailVars, searchVars>>

----------------------------------------------------------------------------
\* GetSeriesDetail / GetSeriesListDetail

SeasonNumbers == {0, 1}

Episode(id, season) == [ID |-> id, SeasonNumber |-> season]

\* episode rosters a detail document can decode to, in document order: up to
\* MaxEpisodes episodes, all of season 1 or alternating between seasons 0, 1
Rosters ==
    {[i \in 1..n |-> Episode(i, IF alternate THEN (i + 1) % 2 ELSE 1)]
       : n \in 0..MaxEpisodes, alternate \in BOOLEAN}

\* outcome of http.Get + ioutil.ReadAll + the two xml.Unmarshal calls.
\* touched: whether the first Unmarshal wrote series fields before failing.
DetailResponses ==
    {[kind |-> k, touched |-> FALSE, episodes |-> <<>>] : k \in {"getErr", "readErr"}}
    \cup {[kind |-> "syntaxErr", touched |-> t, episodes |-> <<>>] : t \in BOOLEAN}
    \cup {[kind |-> "episodeErr", touched |-> TRUE, episodes |-> <<>>]}
    \cup {[kind |-> "decoded", touched |-> TRUE, episodes |-> r] : r \in Rosters}

SeasonAt(seasons, k) == IF k \in DOMAIN seasons.m THEN seasons.m[k] ELSE <<>>

\* make(map[uint64][]*Episode) when series.Seasons == nil
MakeSeasons(seasons) == IF seasons.isNil THEN [isNil |-> FALSE, m |-> <<>>] ELSE seasons

AppendEpisodeReplacing(seasons, episode) ==
    [isNil |-> seasons.isNil,
     m |-> [k \in DOMAIN seasons.m \cup {episode.SeasonNumber} |->
              IF k = episode.SeasonNumber
              THEN <<episode>>
              ELSE seasons.m[k]]]

\* series.Seasons[episode.SeasonNumber] = append(series.Seasons[...], episode)
AppendEpisode(seasons, episode) ==
    [isNil |-> seasons.isNil,
     m |-> [k \in DOMAIN seasons.m \cup {episode.SeasonNumber} |->
              IF k = episode.SeasonNumber
              THEN Append(SeasonAt(seasons, k), episode)
              ELSE seasons.m[k]]]

\* for _, episode := range episodeList.Episodes { ... }
RECURSIVE RangeEpisodes(_, _)
RangeEpisodes(seasons, episodes) ==
    IF episodes = <<>> THEN seasons
    ELSE RangeEpisodes(AppendEpisode(seasons, Head(episodes)), Tail(episodes))

\* xml.Unmarshal(data, series): overwrites the scalar fields present
UnmarshalSeries(series, resp) ==
    IF resp.touched THEN [series EXCEPT !.SeriesName = "detailed"] ELSE series

GetSeriesDetail(series, resp) ==
    CASE resp.kind = "getErr"     -> [series |-> series, err |-> ErrGet]
      [] resp.kind = "readErr"    -> [series |-> series, err |-> ErrRead]
      [] resp.kind = "syntaxErr"  -> [series |-> UnmarshalSeries(series, resp), err |-> ErrSyntax]
      [] resp.kind = "episodeErr" -> [series |-> UnmarshalSeries(series, resp), err |-> ErrUnmarshal]
      [] OTHER ->
            [series |-> [UnmarshalSeries(series, resp) EXCEPT
                            !.Seasons = RangeEpisodes(MakeSeasons(series.Seasons),
                                                      resp.episodes)],
             err |-> Nil]

LogEntry(i, resp) == [entry |-> i, resp |-> resp]

\* A caller's session: it may enrich one entry of its list directly, then
\* hands the whole list to GetSeriesListDetail.
\* the caller enriches one entry of its list directly
CallGetSeriesDetail ==
    /\ detailPc = "idle"
    /\ \E i \in 1..Len(dList), resp \in DetailResponses :
          /\ dList' = [dList EXCEPT ![i] = GetSeriesDetail(dList[i], resp).series]
          /\ detailErr' = GetSeriesDetail(dList[i], resp).err
          /\ detailLog' = Append(detailLog, LogEntry(i, resp))
    /\ detailPc' = "single"
    /\ UNCHANGED <<list0, seriesIndex, callLog, pipeVars, idVars, searchVars>>

\* entry of GetSeriesListDetail: the range loop starts at index 1
CallGetSeriesListDetail ==
    /\ detailPc \in {"idle", "single"}
    /\ list0' = dList
    /\ callLog' = <<>>
    /\ seriesIndex' = 1
    /\ detailErr' = Nil
    /\ detailPc' = IF Len(dList) = 0 THEN "returned" ELSE "loop"
    /\ UNCHANGED <<dList, detailLog, pipeVars, idVars, searchVars>>

ListDetailContinueAlways(e) == TRUE

\* if err = t.GetSeriesDetail(...); err != nil { return }
ListDetailContinue(e) == e = Nil

\* one iteration of the loop of GetSeriesListDetail
ListDetailIter ==
    /\ detailPc = "loop"
    /\ \E resp \in DetailResponses :
          LET r == GetSeriesDetail(dList[seriesIndex], resp) IN
          /\ dList' = [dList EXCEPT ![seriesIndex] = r.series]
          /\ detailErr' = r.err
          /\ detailLog' = Append(detailLog, LogEntry(seriesIndex, resp))
          /\ callLog' = Append(callLog, LogEntry(seriesIndex, resp))
          /\ IF ListDetailContinue(r.err) /\ seriesIndex < Len(dList)
             THEN /\ seriesIndex' = seriesIndex + 1
                  /\ detailPc' = "loop"
             ELSE /\ seriesIndex' = seriesIndex
                  /\ detailPc' = "returned"
    /\ UNCHANGED <<list0, pipeVars, idVars, searchVars>>

----------------------------------------------------------------------------
\* SearchSeries

\* uint64 scaled to UintBits bits
MaxUint == 2^UintBits - 1

\* digit strings the pattern (\d+) can capture, by their decimal value
Tokens == {71663, 79349, MaxUint, MaxUint + 1}

\* strconv.ParseUint(s, 10, 64): out of range yields the maximum and ErrRange
ParseUint(tok) ==
    IF tok > MaxUint THEN [v |-> MaxUint, err |-> ErrRange] ELSE [v |-> tok, err |-> Nil]

MaxResultsArgs == {-1, 0, 1, 2, 3}

\* outcome of http.Get + ioutil.ReadAll + FindAllSubmatch on the search page
PageResponses ==
    {[kind |-> k, groups |-> <<>>] : k \in {"getErr", "readErr"}}
    \cup {[kind |-> "page", groups |-> g] : g \in SeqsUpTo(Tokens, MaxGroups)}

AlreadyDoneNever(done, seriesID) == FALSE

\* if _, ok := doneSeriesIDs[seriesID]; ok
AlreadyDone(done, seriesID) == seriesID \in done

IsSyntaxErrorOrCount(e) == e \in {ErrSyntax, ErrCount}

\* if _, ok := err.(*xml.SyntaxError); ok
IsSyntaxError(e) == e = ErrSyntax

CapPassed(list, max) == Len(list) > max

CapAtLeast(list, max) == Len(list) >= max

\* if len(seriesList.Series) == maxResults
CapReached(list, max) == Len(list) = max

Prepend(list, series) == <<series>> \o list

\* seriesList.Series = append(seriesList.Series, series)
AppendSeries(list, series) == Append(list, series)

NamedResultsErrOnly(list, e) ==
    [seriesList |-> IF e # Nil THEN <<>> ELSE list, err |-> e]

\* a bare return hands back the named results seriesList and err as they are
NamedResults(list, e) == [seriesList |-> list, err |-> e]

Fetch(pos, id, have, e) == [pos |-> pos, id |-> id, have |-> have, err |-> e]

\* the function returns
Return(list, e, why) ==
    /\ seriesList' = NamedResults(list, e).seriesList
    /\ err' = NamedResults(list, e).err
    /\ searchPc' = "done"
    /\ stop' = why
    /\ gi' = gi

\* continue: the next group, or the end of the range loop and the final return
Continue(list, e) ==
    IF gi < Len(groups)
    THEN /\ seriesList' = list
         /\ err' = e
         /\ gi' = gi + 1
         /\ searchPc' = "scan"
         /\ stop' = stop
    ELSE Return(list, e, "end")

\* http.Get, ReadAll and FindAllSubmatch of the search page
FetchPage ==
    /\ searchPc = "start"
    /\ \E page \in PageResponses :
          /\ groups' = page.groups
          /\ IF page.kind = "getErr"
             THEN Return(seriesList, ErrGet, "page")
             ELSE IF page.kind = "readErr"
             THEN Return(seriesList, ErrRead, "page")
             ELSE IF page.groups = <<>>
             THEN Return(seriesList, err, "end")
             ELSE /\ gi' = 1
                  /\ searchPc' = "scan"
                  /\ UNCHANGED <<seriesList, err, stop>>
    /\ UNCHANGED <<maxResults, doneSeriesIDs, fetchLog, pipeVars, idVars, detailVars>>

\* one iteration of the loop over groups
ScanGroup ==
    /\ searchPc = "scan"
    /\ LET p == ParseUint(groups[gi])
           seriesID == p.v
       IN  IF AlreadyDone(doneSeriesIDs, seriesID)
           THEN /\ Continue(seriesList, p.err)
                /\ UNCHANGED <<doneSeriesIDs, fetchLog>>
           ELSE IF p.err # Nil
           THEN /\ Return(seriesList, p.err, "parse")
                /\ UNCHANGED <<doneSeriesIDs, fetchLog>>
           ELSE \E resp \in ListResponses({seriesID}) :
                   LET r == GetSeriesByID(resp) IN
                   /\ fetchLog' = Append(fetchLog,
                                         Fetch(gi, seriesID, Len(seriesList), r.err))
                   /\ IF r.err # Nil
                      THEN /\ doneSeriesIDs' = doneSeriesIDs
                           /\ IF IsSyntaxError(r.err)
                              THEN Continue(seriesList, Nil)
                              ELSE Return(seriesList, r.err, "fetch")
                      ELSE /\ doneSeriesIDs' = doneSeriesIDs \cup {seriesID}
                           /\ IF CapReached(AppendSeries(seriesList, r.series[1]), maxResults)
                              THEN Return(AppendSeries(seriesList, r.series[1]), Nil, "cap")
                              ELSE Continue(AppendSeries(seriesList, r.series[1]), Nil)
    /\ UNCHANGED <<maxResults, groups, pipeVars, idVars, detailVars>>

----------------------------------------------------------------------------
\* Initial states and specifications

PipeIdle ==
    /\ element = [ok |-> FALSE, content |-> <<>>]
    /\ pipeList = <<>>
    /\ pipeErr = Nil
    /\ pipePc = "idle"

IdIdle ==
    /\ idCall = "none"
    /\ idArg = <<>>
    /\ idResponse = [kind |-> "getErr", list |-> <<>>]
    /\ idSeries = <<>>
    /\ idErr = Nil

DetailIdle ==
    /\ list0 = <<>>
    /\ dList = <<>>
    /\ seriesIndex = 0
    /\ detailPc = "idle"
    /\ detailErr = Nil
    /\ detailLog = <<>>
    /\ callLog = <<>>

SearchIdle ==
    /\ maxResults = 0
    /\ searchPc = "idle"
    /\ groups = <<>>
    /\ gi = 0
    /\ doneSeriesIDs = {}
    /\ seriesList = <<>>
    /\ err = Nil
    /\ fetchLog = <<>>
    /\ stop = "none"

\* a PipeList (nil) about to decode one element
InitPipe ==
    /\ element \in Elements
    /\ pipeList = <<>>
    /\ pipeErr = Nil
    /\ pipePc = "call"
    /\ IdIdle /\ DetailIdle /\ SearchIdle

InitID == PipeIdle /\ IdIdle /\ DetailIdle /\ SearchIdle

\* lists a caller holds: entries as returned by a search, Seasons nil or
\* an empty map
DetailLists ==
    {[i \in 1..n |-> [Series(IF i % 2 = 1 THEN 71663 ELSE 79349)
                         EXCEPT !.Seasons = [isNil |-> nilmap, m |-> <<>>]]]
       : n \in 0..MaxSeries, nilmap \in BOOLEAN}

InitDetail ==
    /\ dList \in DetailLists
    /\ list0 = dList
    /\ seriesIndex = 0
    /\ detailPc = "idle"
    /\ detailErr = Nil
    /\ detailLog = <<>>
    /\ callLog = <<>>
    /\ PipeIdle /\ IdIdle /\ SearchIdle

\* seriesList and err are the zero-valued named results on entry
InitSearch ==
    /\ maxResults \in MaxResultsArgs
    /\ searchPc = "start"
    /\ groups = <<>>
    /\ gi = 0
    /\ doneSeriesIDs = {}
    /\ seriesList = <<>>
    /\ err = Nil
    /\ fetchLog = <<>>
    /\ stop = "none"
    /\ PipeIdle /\ IdIdle /\ DetailIdle

NextPipe   == UnmarshalXML
NextID     == CallGetSeriesByID \/ CallGetSeriesByIMDBID
NextDetail == CallGetSeriesDetail \/ CallGetSeriesListDetail \/ ListDetailIter
NextSearch == FetchPage \/ ScanGroup

SpecPipe   == InitPipe /\ [][NextPipe]_vars
SpecID     == InitID /\ [][NextID]_vars
SpecDetail == InitDetail /\ [][NextDetail]_vars
SpecSearch == InitSearch /\ [][NextSearch]_vars

----------------------------------------------------------------------------
\* Properties

Pipes(n) == [i \in 1..n |-> "|"]

\* the elements of l joined with "|"
RECURSIVE Join(_)
Join(l) ==
    IF l = <<>> THEN <<>>
    ELSE IF Len(l) = 1 THEN l[1]
    ELSE l[1] \o <<"|">> \o Join(Tail(l))

PipeDecoded == pipePc = "done" /\ pipeErr = Nil

\* C10 as stated: the decoded list is the split of the content with at most
\* one leading and at most one trailing "|" removed.
C10_TrimsOnce ==
    PipeDecoded => pipeList = Split(TrimOnce(element.content))

\* C10 amended: the decoded list is the split on "|" of the content with ALL
\* leading and trailing "|" removed: the content is some "|"s, the elements
\* joined by "|", some "|"s; no element holds a "|"; and unless the list is
\* the single element, its first and last elements are not empty.  The raw
\* content "||a||" decodes to ["a"].
C10_TrimsAll ==
    PipeDecoded =>
        /\ Len(pipeList) >= 1
        /\ \A n \in 1..Len(pipeList) : \A c \in 1..Len(pipeList[n]) : pipeList[n][c] # "|"
        /\ \E i, j \in 0..Len(element.content) :
               element.content = Pipes(i) \o Join(pipeList) \o Pipes(j)
        /\ Len(pipeList) > 1 => pipeList[1] # <<>> /\ pipeList[Len(pipeList)] # <<>>
        /\ element.content = <<"|", "|", "a", "|", "|">> => pipeList = << <<"a">> >>

C10_Witness ==
    /\ PipeDecoded
    /\ element.content = <<"|", "|", "a", "|", "|">>
    /\ pipeList = << <<"a">> >>

\* C1: a single-series lookup succeeds exactly when the response decodes to
\* a list of one entry, and then returns that entry; a decoded list of any
\* other length yields the count error and no Series.
C1_ExactlyOne ==
    idCall # "none" =>
        /\ idErr = Nil <=> (idResponse.kind = "decoded" /\ Len(idResponse.list) = 1)
        /\ idErr = Nil => idSeries = <<idResponse.list[1]>>
        /\ idErr # Nil => idSeries = <<>>
        /\ (idResponse.kind = "decoded" /\ Len(idResponse.list) # 1) => idErr = ErrCount

C1_Witness ==
    /\ idCall = "GetSeriesByIMDBID"
    /\ idResponse.kind = "decoded"
    /\ Len(idResponse.list) = 2
    /\ idErr = ErrCount
    /\ idSeries = <<>>

\* C5: when GetSeriesListDetail has returned, the fetches of the call were
\* for entries 1, 2, ... in list order, only the last of them can have
\* failed and its error is the returned one, every entry up to it carries
\* its enrichment (applied once), every entry after it is as it was, and
\* with a nil error every entry was enriched.
C5_FailFast ==
    detailPc = "returned" =>
        LET n == Len(callLog)
            R(j) == GetSeriesDetail(list0[j], callLog[j].resp)
        IN  /\ Len(dList) = Len(list0)
            /\ n <= Len(list0)
            /\ \A j \in 1..n : callLog[j].entry = j
            /\ \A j \in 1..(n - 1) : R(j).err = Nil
            /\ \A j \in 1..n : dList[j] = R(j).series
            /\ \A j \in (n + 1)..Len(list0) : dList[j] = list0[j]
            /\ detailErr = IF n = 0 THEN Nil ELSE R(n).err
            /\ detailErr = Nil => n = Len(list0)

C5_Witness ==
    /\ detailPc = "returned"
    /\ Len(list0) = 3
    /\ Len(callLog) = 2
    /\ detailErr = ErrGet
    /\ dList[1] # list0[1]
    /\ dList[1].Seasons.m # <<>>
    /\ dList[3] = list0[3]

\* the episodes of the successful detail fetches for entry i, in order
RECURSIVE Decoded(_, _)
Decoded(log, i) ==
    IF log = <<>> THEN <<>>
    ELSE (IF Head(log).entry = i /\ Head(log).resp.kind = "decoded"
          THEN Head(log).resp.episodes ELSE <<>>) \o Decoded(Tail(log), i)

\* the successful detail responses for entry i, in order
OkResponses(log, i) ==
    SelectSeq(log, LAMBDA f : f.entry = i /\ f.resp.kind = "decoded")

OfSeason(episodes, k) == SelectSeq(episodes, LAMBDA e : e.SeasonNumber = k)

Occurrences(seq, x) == Cardinality({p \in 1..Len(seq) : seq[p] = x})

RECURSIVE SumLen(_, _)
SumLen(m, keys) ==
    IF keys = {} THEN 0
    ELSE LET k == CHOOSE x \in keys : TRUE IN Len(m[k]) + SumLen(m, keys \ {k})

\* C6: Seasons is append-only: the list of every season number is the
\* concatenation, in fetch order, of the episodes of that season of every
\* successful detail fetch, and the keys are exactly the season numbers
\* decoded.  One fetch of N episodes over K seasons gives K keys whose
\* lengths sum to N; two fetches with the same roster hold every episode
\* twice.
C6_AppendOnly ==
    \A i \in 1..Len(dList) :
        LET seasons == dList[i].Seasons
            all == Decoded(detailLog, i)
            ok == OkResponses(detailLog, i)
        IN  /\ \A k \in SeasonNumbers : SeasonAt(seasons, k) = OfSeason(all, k)
            /\ DOMAIN seasons.m = {all[p].SeasonNumber : p \in 1..Len(all)}
            /\ Len(ok) = 1 =>
                  /\ Cardinality(DOMAIN seasons.m)
                        = Cardinality({all[p].SeasonNumber : p \in 1..Len(all)})
                  /\ SumLen(seasons.m, DOMAIN seasons.m) = Len(ok[1].resp.episodes)
            /\ (Len(ok) = 2 /\ ok[1].resp = ok[2].resp) =>
                  \A p \in 1..Len(ok[1].resp.episodes) :
                      LET e == ok[1].resp.episodes[p]
                      IN  Occurrences(SeasonAt(seasons, e.SeasonNumber), e) = 2

C6_Witness ==
    \E i \in 1..Len(dList) :
        LET ok == OkResponses(detailLog, i)
        IN  /\ Len(ok) = 2
            /\ ok[1].resp = ok[2].resp
            /\ Len(ok[1].resp.episodes) = 2
            /\ Len(SeasonAt(dList[i].Seasons, 1)) = 4

IDsOf(list) == [i \in 1..Len(list) |-> list[i].ID]

OkFetches == SelectSeq(fetchLog, LAMBDA f : f.err = Nil)

FetchedIDs(log) == [i \in 1..Len(log) |-> log[i].id]

\* C2 as stated: within one call no catalog ID is fetched more than once.
C2_NeverRefetched ==
    \A i, j \in 1..Len(fetchLog) : i < j => fetchLog[i].id # fetchLog[j].id

\* C2 amended: candidates are fetched in scan order and no catalog ID is
\* fetched again after a fetch of it succeeded; an ID is fetched a second
\* time only when every earlier fetch of it was swallowed as malformed.
C2_NoRefetchAfterSuccess ==
    \A i, j \in 1..Len(fetchLog) :
        i < j =>
            /\ fetchLog[i].pos < fetchLog[j].pos
            /\ fetchLog[i].id = fetchLog[j].id => fetchLog[i].err = ErrSyntax

C2_Witness ==
    /\ searchPc = "done"
    /\ stop = "end"
    /\ Len(groups) = 2
    /\ groups[1] = groups[2]
    /\ Len(fetchLog) = 1
    /\ fetchLog[1].err = Nil

\* C3: a detail fetch failing with a syntax error changes neither the
\* result nor the error and the scan goes on to the next candidate (or ends
\* normally after the last one); a detail fetch failing in any other way
\* returns at once with that error; and nothing is fetched after the return.
C3_SwallowOrAbort ==
    [][ /\ Len(fetchLog') = Len(fetchLog) + 1 =>
            LET f == fetchLog'[Len(fetchLog')]
            IN  /\ f.err = ErrSyntax =>
                      /\ seriesList' = seriesList
                      /\ doneSeriesIDs' = doneSeriesIDs
                      /\ err' = Nil
                      /\ IF gi < Len(groups)
                         THEN searchPc' = "scan" /\ gi' = gi + 1
                         ELSE searchPc' = "done" /\ stop' = "end"
                /\ f.err \notin {Nil, ErrSyntax} =>
                      /\ searchPc' = "done"
                      /\ stop' = "fetch"
                      /\ err' = f.err
                      /\ seriesList' = seriesList
        /\ searchPc = "done" => fetchLog' = fetchLog
      ]_vars

C3_Witness ==
    /\ searchPc = "done"
    /\ Len(fetchLog) = 3
    /\ fetchLog[1].err = ErrSyntax
    /\ fetchLog[2].err = Nil
    /\ fetchLog[3].err = ErrCount
    /\ err = ErrCount
    /\ IDsOf(seriesList) = <<fetchLog[2].id>>

\* C4: with maxResults > 0 the list never exceeds maxResults, the call has
\* returned as soon as the list holds maxResults entries, and every fetch was
\* issued while the list held fewer; the page [71663, 71663, 79349] with
\* maxResults = 2 and no failing fetch takes two fetches and returns the
\* series 71663, 79349.
C4_Cap ==
    maxResults > 0 =>
        /\ Len(seriesList) <= maxResults
        /\ Len(seriesList) = maxResults => searchPc = "done"
        /\ \A i \in 1..Len(fetchLog) : fetchLog[i].have < maxResults
        /\ ( /\ searchPc = "done"
             /\ maxResults = 2
             /\ groups = <<71663, 71663, 79349>>
             /\ \A i \in 1..Len(fetchLog) : fetchLog[i].err = Nil )
           => /\ Len(fetchLog) = 2
              /\ IDsOf(seriesList) = <<71663, 79349>>

C4_Witness ==
    /\ searchPc = "done"
    /\ stop = "cap"
    /\ maxResults = 2
    /\ groups = <<71663, 71663, 79349>>
    /\ Len(fetchLog) = 2
    /\ IDsOf(seriesList) = <<71663, 79349>>

\* C7 as stated: a returned error never comes with a non-empty list.
C7_ErrorOnly ==
    searchPc = "done" => (err = Nil \/ seriesList = <<>>)

\* C7 amended: a call returns a nil error, or a non-nil error together with
\* every Series collected from the candidates fetched before the failure;
\* the list is empty only when no fetch had succeeded (always so when the
\* page itself could not be fetched).
C7_ErrorWithCollected ==
    (searchPc = "done" /\ err # Nil) =>
        /\ IDsOf(seriesList) = FetchedIDs(OkFetches)
        /\ stop = "page" => seriesList = <<>>

C7_Witness ==
    /\ searchPc = "done"
    /\ err = ErrGet
    /\ stop = "fetch"
    /\ Len(seriesList) = 2

\* the IDs parsed from the page, in scan order
ParsedIDs == [q \in 1..Len(groups) |-> ParseUint(groups[q]).v]

\* first occurrences, in order
RECURSIVE Uniq(_)
Uniq(ids) ==
    IF ids = <<>> THEN <<>>
    ELSE LET init == SubSeq(ids, 1, Len(ids) - 1)
             last == ids[Len(ids)]
         IN  IF \E q \in 1..Len(init) : init[q] = last
             THEN Uniq(init)
             ELSE Append(Uniq(init), last)

Succeeded == {OkFetches[i].id : i \in 1..Len(OkFetches)}

\* C8 as stated: a successful result lists the IDs whose fetch succeeded in
\* the order of their first occurrence on the page.
C8_FirstOccurrenceOrder ==
    (searchPc = "done" /\ err = Nil) =>
        IDsOf(seriesList) = SelectSeq(Uniq(ParsedIDs), LAMBDA id : id \in Succeeded)

\* C8 amended: a successful result holds exactly one entry for each ID whose
\* fetch succeeded, no ID twice, ordered by the scan position of the
\* occurrence whose fetch succeeded: the first occurrence of the ID, or, when
\* the fetches of earlier occurrences were swallowed as malformed, the first
\* occurrence after those.
C8_SuccessOrder ==
    (searchPc = "done" /\ err = Nil) =>
        LET ok == OkFetches IN
        /\ IDsOf(seriesList) = FetchedIDs(ok)
        /\ \A i, j \in 1..Len(ok) : i < j => ok[i].pos < ok[j].pos /\ ok[i].id # ok[j].id
        /\ \A i \in 1..Len(ok) :
              /\ ParsedIDs[ok[i].pos] = ok[i].id
              /\ \A q \in 1..(ok[i].pos - 1) :
                    ParsedIDs[q] = ok[i].id =>
                        \E n \in 1..Len(fetchLog) :
                            fetchLog[n].pos = q /\ fetchLog[n].err = ErrSyntax

C8_Witness ==
    /\ searchPc = "done"
    /\ err = Nil
    /\ Len(groups) = 3
    /\ groups[1] = groups[3]
    /\ groups[1] # groups[2]
    /\ IDsOf(seriesList) = <<groups[1], groups[2]>>

====
